---- MODULE Spec2Model ----
(***************************************************************************)
(* Bak-Tang-Wiesenfeld sandpile of src/bak_sandpiles.py.                   *)
(*                                                                         *)
(* The module-level globals (grid, avalanche_sizes, total_drops), the      *)
(* functions add_sand, topple, record_avalanche, draw_grid and the loop of *)
(* main() are modelled as a state machine.  topple() is modelled at the    *)
(* granularity of its loops: one step per evaluation of the while          *)
(* condition, one step per cell of the for loop, one step for the          *)
(* `grid += additions` that ends a pass.                                   *)
(*                                                                         *)
(* The source fixes GRID_SIZE = 100.  The model keeps the side of the grid *)
(* in a variable that Init chooses and no action changes, so that one      *)
(* exploration covers every side from 1 up to a bound.                     *)
(*                                                                         *)
(* Two other scripts of the repository are modelled after the sandpile,    *)
(* each as a state machine over variables of its own: the traffic model of *)
(* src/biham_middleton_levine.py and the ant of src/Langton_Ant.py.  A     *)
(* script that is not the one running keeps its variables at the values of *)
(* a script that was never started.                                        *)
(***************************************************************************)
EXTENDS Integers, Sequences, FiniteSets, TLC

VARIABLES
    GRID_SIZE,          \* side of the square grid (constant during a run)
    grid,               \* global grid[y, x]
    avalanche_sizes,    \* global list of recorded avalanche sizes
    total_drops,        \* global drop counter
    screen,             \* what draw_grid last painted: palette index per cell
    plot_report,        \* what plot_avalanches_enhanced last reported
    running,            \* main(): running
    paused,             \* main(): paused
    frame_count,        \* main(): frame_count
    drop_i,             \* main(): iterations of `for _ in range(...)` started
    events_handled,     \* events of the current pygame.event.get() batch handled
    avalanche_this_step,\* main(): avalanche_this_step
    x,                  \* add_sand(): parameter x of the latest call
    y,                  \* add_sand(): parameter y of the latest call
    total_avalanche_size_for_this_drop, \* topple(): local accumulator
    topple_indices,     \* topple(): cells of this pass not yet processed
    additions,          \* topple(): scratch grid of this pass
    pc,                 \* control position
    \* history variables (observations of the run, read by no action guard)
    lost,               \* grains sent toward a neighbour outside the grid
    initial_total,      \* sum of the grid at Init
    in_bounds_calls,    \* add_sand calls whose target was a cell of the grid
    add_sand_calls,     \* add_sand calls made
    topple_calls,       \* topple calls made
    passes,             \* passes of the current topple call
    grid_at_call,       \* grid when the current topple call started
    at_drop,            \* globals when the latest add_sand call started
    safety_break,       \* the `break` of topple's safety check was taken
    pass_start,         \* grid and cells found when the latest pass started
    topple_count,       \* per cell, its topplings during the current topple call
    \* src/biham_middleton_levine.py
    bml_width,          \* main(): width (constant during a run)
    bml_height,         \* main(): height (constant during a run)
    bml_cells,          \* main(): cells[r, c], 0 empty, 1 red, 2 blue
    counter,            \* main(): counter, 0 on a red turn, 1 on a blue turn
    ratio_red_jammed,   \* global list, each ratio kept as <<numerator, denominator>>
    ratio_blue_jammed,  \* global list
    ratio_all_jammed,   \* global list
    delta_jammed,       \* global list
    bml_pc,             \* control position of the script
    overwrites,         \* history: writes of update() to a cell of next_ already set
    \* src/Langton_Ant.py
    ant_width,          \* main(): width (constant during a run)
    ant_height,         \* main(): height (constant during a run)
    ant_cells,          \* main(): cells[x, y], states 0, 1, 2
    ant,                \* main(): ant = (x, y, direction)
    ant_running,        \* main(): running
    ant_pc,             \* control position of the script
    visited,            \* history: cells the ant has stood on when a step began
    ant_steps           \* history: calls of update_ant_and_grid made

vars == <<GRID_SIZE, grid, avalanche_sizes, total_drops, screen, plot_report,
          running, paused, frame_count, drop_i, events_handled,
          avalanche_this_step, x, y, total_avalanche_size_for_this_drop,
          topple_indices, additions, pc, lost, initial_total, in_bounds_calls,
          add_sand_calls, topple_calls, passes, grid_at_call, at_drop,
          safety_break, pass_start, topple_count,
          bml_width, bml_height, bml_cells, counter, ratio_red_jammed,
          ratio_blue_jammed, ratio_all_jammed, delta_jammed, bml_pc, overwrites,
          ant_width, ant_height, ant_cells, ant, ant_running, ant_pc, visited,
          ant_steps>>

bmlVars == <<bml_width, bml_height, bml_cells, counter, ratio_red_jammed,
             ratio_blue_jammed, ratio_all_jammed, delta_jammed, bml_pc, overwrites>>
antVars == <<ant_width, ant_height, ant_cells, ant, ant_running, ant_pc, visited,
             ant_steps>>
otherScripts == <<bmlVars, antVars>>

(* biham_middleton_levine.py was not started *)
BML_Unloaded ==
    /\ bml_width = 0
    /\ bml_height = 0
    /\ bml_cells = << >>
    /\ counter = 0
    /\ ratio_red_jammed = << >>
    /\ ratio_blue_jammed = << >>
    /\ ratio_all_jammed = << >>
    /\ delta_jammed = << >>
    /\ bml_pc = "unloaded"
    /\ overwrites = 0

(* Langton_Ant.py was not started *)
Ant_Unloaded ==
    /\ ant_width = 0
    /\ ant_height = 0
    /\ ant_cells = << >>
    /\ ant = << >>
    /\ ant_running = FALSE
    /\ ant_pc = "unloaded"
    /\ visited = {}
    /\ ant_steps = 0

mainLocals == <<running, paused, frame_count, drop_i, events_handled>>
toppleLocals == <<total_avalanche_size_for_this_drop, topple_indices, additions>>
history == <<lost, initial_total, in_bounds_calls, add_sand_calls, topple_calls,
             passes, grid_at_call, at_drop, safety_break, pass_start,
             topple_count>>
sandpileVars == <<GRID_SIZE, grid, avalanche_sizes, total_drops, screen,
                  plot_report, mainLocals, avalanche_this_step, x, y,
                  toppleLocals, pc, history>>

-----------------------------------------------------------------------------
(* Program constants *)

SAND_DROPS_PER_FRAME == 5
THRESHOLD == 4
PALETTE_LEN == 5

(* Bounds of the model *)

MaxGridMain == 5      \* largest side explored under the main loop
MaxGrid == 3          \* largest side explored with arbitrary grids and targets
MaxFrames == 4        \* unpaused frames of main() explored
MaxEvents == 2        \* events handled per frame
MaxMass == 3          \* grains scattered over an arbitrary initial grid
MaxScatter == 2       \* grains scattered when a pass takes its cells in any order
MaxHeight == 12       \* height of a single pile of an arbitrary initial grid
MaxCycles == 3        \* drop + topple + record cycles of the cycle harness
MaxToppleCalls == 2   \* consecutive topple calls of the topple harness
MaxSeries == 3        \* entries of an arbitrary avalanche series
MaxSize == 4          \* largest entry of an arbitrary avalanche series

-----------------------------------------------------------------------------
(* The grid *)

Idx == 0 .. (GRID_SIZE - 1)
Cells == Idx \X Idx                     \* a cell is <<y, x>> (row, column)
Zeros == [c \in Cells |-> 0]

RECURSIVE SumUpTo(_, _)
SumUpTo(g, k) ==
    IF k = 0 THEN 0
    ELSE g[<<(k - 1) \div GRID_SIZE, (k - 1) % GRID_SIZE>>] + SumUpTo(g, k - 1)

SumGrid(g) == SumUpTo(g, GRID_SIZE * GRID_SIZE)

(* numpy indexing: a negative index counts from the end, an index outside
   [-n, n) raises IndexError. *)
ValidIndex(i) == (0 - GRID_SIZE) <= i /\ i < GRID_SIZE
NumpyIndex(i) == IF i < 0 THEN i + GRID_SIZE ELSE i
ValidCell(yy, xx) == ValidIndex(yy) /\ ValidIndex(xx)
NumpyCell(yy, xx) == <<NumpyIndex(yy), NumpyIndex(xx)>>

-----------------------------------------------------------------------------
(* add_sand(x, y) *)

(* `0 <= x <= GRID_SIZE and 0 <= y <= GRID_SIZE` *)
InBoundsInclusive(xx, yy) ==
    0 <= xx /\ xx <= GRID_SIZE /\ 0 <= yy /\ yy <= GRID_SIZE

(* The test without its lower bounds *)
InBoundsUpperOnly(xx, yy) == xx < GRID_SIZE /\ yy < GRID_SIZE

InBounds(xx, yy) == 0 <= xx /\ xx < GRID_SIZE /\ 0 <= yy /\ yy < GRID_SIZE

(* `grid[x, y]`: row and column exchanged *)
add_sand_index_swapped(xx, yy) == <<xx, yy>>

(* `grid[y, x]`: the index pair add_sand hands to numpy *)
add_sand_index(xx, yy) == <<yy, xx>>

Snapshot == [grid |-> grid, drops |-> total_drops, series |-> avalanche_sizes]

(* The call add_sand(xx, yy); control continues at `next`.  An index numpy
   rejects raises IndexError, which nothing catches. *)
add_sand(xx, yy, next) ==
    /\ x' = xx
    /\ y' = yy
    /\ IF InBounds(xx, yy)
         THEN LET i == add_sand_index(xx, yy) IN
              IF ValidCell(i[1], i[2])
                THEN /\ grid' = [grid EXCEPT ![NumpyCell(i[1], i[2])] = @ + 1]
                     /\ total_drops' = total_drops + 1
                     /\ pc' = next
                ELSE /\ pc' = "IndexError"
                     /\ UNCHANGED <<grid, total_drops>>
         ELSE /\ pc' = next
              /\ UNCHANGED <<grid, total_drops>>
    /\ add_sand_calls' = add_sand_calls + 1
    /\ in_bounds_calls' = in_bounds_calls + (IF <<yy, xx>> \in Cells THEN 1 ELSE 0)
    /\ at_drop' = Snapshot
    /\ UNCHANGED <<otherScripts, GRID_SIZE, avalanche_sizes, screen, plot_report, running, paused,
                   frame_count, events_handled, avalanche_this_step, toppleLocals,
                   lost, initial_total, topple_calls, passes, grid_at_call,
                   safety_break, pass_start, topple_count>>

-----------------------------------------------------------------------------
(* topple() *)

(* Off-by-one thresholds *)
UnstableAtThree(v) == v >= THRESHOLD - 1
UnstableAbove(v) == v > THRESHOLD

Unstable(v) == v >= THRESHOLD

(* np.any(grid >= 3) *)
AnyAtThree(g) == \E c \in Cells : g[c] >= THRESHOLD - 1

(* np.any(grid > 4) *)
AnyAbove(g) == \E c \in Cells : g[c] > THRESHOLD

(* np.any(grid >= 4) *)
AnyUnstable(g) == \E c \in Cells : Unstable(g[c])

(* np.where(grid >= 4), zipped: the unstable cells in row-major order *)
RowMajor == [k \in 1 .. (GRID_SIZE * GRID_SIZE) |->
                <<(k - 1) \div GRID_SIZE, (k - 1) % GRID_SIZE>>]
(* np.where(grid > 4): an off-by-one of the pass's selection *)
WhereAbove(g) == SelectSeq(RowMajor, LAMBDA c : g[c] > THRESHOLD)

(* np.where(grid >= 3): the pass also takes the cells one grain short *)
WhereAtThree(g) == SelectSeq(RowMajor, LAMBDA c : g[c] >= THRESHOLD - 1)

WhereUnstable(g) == SelectSeq(RowMajor, LAMBDA c : Unstable(g[c]))

(* The four writes without their boundary checks *)
NeighbourWritesUnchecked(yy, xx) ==
    << <<yy, xx - 1>>, <<yy, xx + 1>>, <<yy - 1, xx>>, <<yy + 1, xx>> >>

(* The writes with `if y < GRID_SIZE - 2` for the write below *)
NeighbourWritesDownShort(yy, xx) ==
    (IF xx > 0 THEN << <<yy, xx - 1>> >> ELSE << >>) \o
    (IF xx < GRID_SIZE - 1 THEN << <<yy, xx + 1>> >> ELSE << >>) \o
    (IF yy > 0 THEN << <<yy - 1, xx>> >> ELSE << >>) \o
    (IF yy < GRID_SIZE - 2 THEN << <<yy + 1, xx>> >> ELSE << >>)

(* The writes with `if x > 0` missing: the write to the left always happens *)
NeighbourWritesLeftUnchecked(yy, xx) ==
    << <<yy, xx - 1>> >> \o
    (IF xx < GRID_SIZE - 1 THEN << <<yy, xx + 1>> >> ELSE << >>) \o
    (IF yy > 0 THEN << <<yy - 1, xx>> >> ELSE << >>) \o
    (IF yy < GRID_SIZE - 1 THEN << <<yy + 1, xx>> >> ELSE << >>)

(* The four writes of a torus: every index taken modulo the side *)
NeighbourWritesToroidal(yy, xx) ==
    << <<yy, (xx - 1) % GRID_SIZE>>, <<yy, (xx + 1) % GRID_SIZE>>,
       <<(yy - 1) % GRID_SIZE, xx>>, <<(yy + 1) % GRID_SIZE, xx>> >>

(* The index pairs written by the four guarded `additions[...] += 1` of the
   toppling cell (yy, xx), in the order of the statements *)
NeighbourWrites(yy, xx) ==
    (IF xx > 0 THEN << <<yy, xx - 1>> >> ELSE << >>) \o
    (IF xx < GRID_SIZE - 1 THEN << <<yy, xx + 1>> >> ELSE << >>) \o
    (IF yy > 0 THEN << <<yy - 1, xx>> >> ELSE << >>) \o
    (IF yy < GRID_SIZE - 1 THEN << <<yy + 1, xx>> >> ELSE << >>)

(* additions[...] += 2 *)
IncTwice(a, i) == [a EXCEPT ![NumpyCell(i[1], i[2])] = @ + 2]

(* additions[...] += 1 *)
Inc(a, i) == [a EXCEPT ![NumpyCell(i[1], i[2])] = @ + 1]

RECURSIVE IncAll(_, _)
IncAll(a, w) == IF w = << >> THEN a ELSE IncAll(Inc(a, Head(w)), Tail(w))

(* additions after the writes of the toppling cell (yy, xx) *)
Distribute(a, yy, xx) == IncAll(a, NeighbourWrites(yy, xx))

(* Some write of the toppling cell (yy, xx) has an index numpy rejects *)
WriteRaises(yy, xx) ==
    \E k \in 1 .. Len(NeighbourWrites(yy, xx)) :
        ~ValidCell(NeighbourWrites(yy, xx)[k][1], NeighbourWrites(yy, xx)[k][2])

(* grid[y, x] = 0 *)
Zeroed(g, c) == [g EXCEPT ![c] = 0]

(* grid[y, x] -= 3 *)
DecreasedByThree(g, c) == [g EXCEPT ![c] = @ - 3]

(* grid[y, x] -= 5 *)
DecreasedByFive(g, c) == [g EXCEPT ![c] = @ - 5]

(* grid[y, x] -= 4 *)
Decreased(g, c) == [g EXCEPT ![c] = @ - 4]

(* grid = additions *)
Replaced(g, a) == [c \in Cells |-> a[c]]

(* grid += additions *)
(* grid += 2 * additions *)
AddedTwice(g, a) == [c \in Cells |-> g[c] + 2 * a[c]]

Added(g, a) == [c \in Cells |-> g[c] + a[c]]

VonNeumann(yy, xx) == {<<yy, xx - 1>>, <<yy, xx + 1>>, <<yy - 1, xx>>, <<yy + 1, xx>>}
OffGrid(yy, xx) == Cardinality(VonNeumann(yy, xx) \ Cells)

(* total_avalanche_size_for_this_drop += 1: one per pass *)
PassCountsOne(found) == 1

(* len(topple_indices[0]): the toppling events of the pass that starts *)
PassTopples(found) == Len(found)

RemoveAt(s, i) == [k \in 1 .. (Len(s) - 1) |-> IF k < i THEN s[k] ELSE s[k + 1]]

ToppleCall ==
    /\ pc = "topple"
    /\ total_avalanche_size_for_this_drop' = 0
    /\ pc' = "topple_while"
    /\ topple_calls' = topple_calls + 1
    /\ passes' = 0
    /\ grid_at_call' = grid
    /\ safety_break' = FALSE
    /\ pass_start' = [grid |-> grid, cells |-> << >>]
    /\ topple_count' = Zeros
    /\ UNCHANGED <<otherScripts, GRID_SIZE, grid, avalanche_sizes, total_drops, screen, plot_report,
                   mainLocals, avalanche_this_step, x, y, topple_indices, additions,
                   lost, initial_total, in_bounds_calls, add_sand_calls, at_drop>>

(* One evaluation of the while condition and, when it holds, the start of a
   pass (lines 72-83). *)
ToppleWhile ==
    /\ pc = "topple_while"
    /\ IF AnyUnstable(grid)
         THEN LET found == WhereUnstable(grid) IN
              IF Len(found) = 0
                THEN /\ pc' = "topple_return"
                     /\ safety_break' = TRUE
                     /\ UNCHANGED <<toppleLocals, passes, pass_start>>
                ELSE /\ topple_indices' = found
                     /\ additions' = Zeros
                     /\ total_avalanche_size_for_this_drop' =
                            total_avalanche_size_for_this_drop + PassTopples(found)
                     /\ passes' = passes + 1
                     /\ pass_start' = [grid |-> grid, cells |-> found]
                     /\ pc' = "topple_for"
                     /\ UNCHANGED safety_break
         ELSE /\ pc' = "topple_return"
              /\ UNCHANGED <<toppleLocals, passes, safety_break, pass_start>>
    /\ UNCHANGED <<otherScripts, GRID_SIZE, grid, avalanche_sizes, total_drops, screen, plot_report,
                   mainLocals, avalanche_this_step, x, y, lost, initial_total,
                   in_bounds_calls, add_sand_calls, topple_calls, grid_at_call,
                   at_drop, topple_count>>

(* The iteration writing the neighbours' grains into grid itself instead of
   the scratch grid *)
ToppleCellInPlace(i) ==
    /\ pc = "topple_for"
    /\ i \in 1 .. Len(topple_indices)
    /\ LET c == topple_indices[i] IN
         IF WriteRaises(c[1], c[2])
           THEN /\ grid' = Decreased(grid, c)
                /\ pc' = "IndexError"
                /\ UNCHANGED lost
           ELSE /\ grid' = Distribute(Decreased(grid, c), c[1], c[2])
                /\ lost' = lost + OffGrid(c[1], c[2])
                /\ pc' = pc
    /\ topple_indices' = RemoveAt(topple_indices, i)
    /\ topple_count' = [topple_count EXCEPT ![topple_indices[i]] = @ + 1]
    /\ UNCHANGED <<otherScripts, GRID_SIZE, avalanche_sizes, total_drops, screen, plot_report,
                   mainLocals, avalanche_this_step, x, y, additions,
                   total_avalanche_size_for_this_drop, initial_total,
                   in_bounds_calls, add_sand_calls, topple_calls, passes,
                   grid_at_call, at_drop, safety_break, pass_start>>

(* One iteration of the for loop, on the i-th cell still to process.  A write
   numpy rejects raises IndexError out of topple(), after the cell itself
   was decreased. *)
ToppleCell(i) ==
    /\ pc = "topple_for"
    /\ i \in 1 .. Len(topple_indices)
    /\ LET c == topple_indices[i] IN
         /\ grid' = Decreased(grid, c)
         /\ IF WriteRaises(c[1], c[2])
              THEN /\ pc' = "IndexError"
                   /\ UNCHANGED <<additions, lost>>
              ELSE /\ additions' = Distribute(additions, c[1], c[2])
                   /\ lost' = lost + OffGrid(c[1], c[2])
                   /\ pc' = pc
    /\ topple_indices' = RemoveAt(topple_indices, i)
    /\ topple_count' = [topple_count EXCEPT ![topple_indices[i]] = @ + 1]
    /\ UNCHANGED <<otherScripts, GRID_SIZE, avalanche_sizes, total_drops, screen, plot_report,
                   mainLocals, avalanche_this_step, x, y,
                   total_avalanche_size_for_this_drop, initial_total,
                   in_bounds_calls, add_sand_calls, topple_calls, passes,
                   grid_at_call, at_drop, safety_break, pass_start>>

(* zip(...) yields the cells in the order np.where found them *)
ToppleNext == ToppleCell(1)

(* The same loop taking the cells of the pass in any order *)
ToppleAny == \E i \in 1 .. Len(topple_indices) : ToppleCell(i)

(* The for loop is exhausted: grid += additions, back to the while condition *)
ToppleApply ==
    /\ pc = "topple_for"
    /\ topple_indices = << >>
    /\ grid' = Added(grid, additions)
    /\ pc' = "topple_while"
    /\ UNCHANGED <<otherScripts, GRID_SIZE, avalanche_sizes, total_drops, screen, plot_report,
                   mainLocals, avalanche_this_step, x, y, toppleLocals, history>>

(* return total_avalanche_size_for_this_drop, assigned by the caller *)
ToppleReturn ==
    /\ pc = "topple_return"
    /\ avalanche_this_step' = total_avalanche_size_for_this_drop
    /\ pc' = "record"
    /\ UNCHANGED <<otherScripts, GRID_SIZE, grid, avalanche_sizes, total_drops, screen, plot_report,
                   mainLocals, x, y, toppleLocals, history>>

-----------------------------------------------------------------------------
(* record_avalanche(size) *)

(* `if size >= 0` *)
ShouldRecordAlways(size) == size >= 0

ShouldRecord(size) == size > 0

(* avalanche_sizes.insert(0, size) *)
Prepended(series, size) == <<size>> \o series

(* avalanche_sizes.extend([size, size]) *)
RecordedTwice(series, size) == Append(Append(series, size), size)

(* avalanche_sizes.append(size) *)
Recorded(series, size) == Append(series, size)

(* record_avalanche also counting the avalanche as a drop *)
RecordAvalancheCountsDrop ==
    /\ pc = "record"
    /\ avalanche_sizes' = IF ShouldRecord(avalanche_this_step)
                            THEN Recorded(avalanche_sizes, avalanche_this_step)
                            ELSE avalanche_sizes
    /\ total_drops' = IF ShouldRecord(avalanche_this_step)
                        THEN total_drops + 1 ELSE total_drops
    /\ pc' = "drop"
    /\ UNCHANGED <<otherScripts, GRID_SIZE, grid, screen, plot_report, mainLocals,
                   avalanche_this_step, x, y, toppleLocals, history>>

RecordAvalanche ==
    /\ pc = "record"
    /\ avalanche_sizes' = IF ShouldRecord(avalanche_this_step)
                            THEN Recorded(avalanche_sizes, avalanche_this_step)
                            ELSE avalanche_sizes
    /\ pc' = "drop"
    /\ UNCHANGED <<otherScripts, GRID_SIZE, grid, total_drops, screen, plot_report, mainLocals,
                   avalanche_this_step, x, y, toppleLocals, history>>

-----------------------------------------------------------------------------
(* draw_grid() *)

Min(a, b) == IF a < b THEN a ELSE b

(* color_index = grid[y, x]: no clamp *)
ColorIndexUnclamped(v) == v

(* color_index of a cell: cells holding 0 keep the background, entry 0 of the
   palette *)
ColorIndex(v) == IF v > 0 THEN Min(v, PALETTE_LEN - 1) ELSE 0

Rendered(g) == [c \in Cells |-> ColorIndex(g[c])]

-----------------------------------------------------------------------------
(* plot_avalanches_enhanced()

   The routine prints and draws; the model keeps what it reports in
   plot_report: the status (which branch printed), the number of avalanches
   in the title, the drop count in the caption, the (center, count) pairs
   handed to plt.scatter and the result of the fit.

   The bin edges are float64 powers 10**e and the fit is a float regression:
   the model computes neither.  A bin of the histogram is known by the set
   of sizes that fall in it; which sizes share a bin is any choice that
   agrees with what is certain about the edges; slope and intercept are
   integers drawn from small sets. *)

BIN_EDGES == 50

SizesOf(series) == {series[i] : i \in 1 .. Len(series)}

(* min(avalanche_sizes) if avalanche_sizes else 1 *)
min_size(series) ==
    IF series # << >>
      THEN CHOOSE m \in SizesOf(series) : \A t \in SizesOf(series) : m <= t
      ELSE 1

(* max(avalanche_sizes) if avalanche_sizes else 1 *)
max_size(series) ==
    IF series # << >>
      THEN CHOOSE m \in SizesOf(series) : \A t \in SizesOf(series) : m >= t
      ELSE 1

(* The first and the last edge: max(1, min_size) and max_size + 1 *)
LowEdge(series) == IF min_size(series) > 1 THEN min_size(series) ELSE 1
HighEdge(series) == max_size(series) + 1

(* The greatest size of the series below t *)
SizeBelow(series, t) ==
    CHOOSE u \in SizesOf(series) :
        /\ u < t
        /\ \A v \in SizesOf(series) : v < t => v <= u

(* An edge certainly lies between the sizes u < t.  Consecutive edges are in
   the ratio r with r^49 = HighEdge / LowEdge: an edge separates u and t as
   soon as t / u >= r, which holds when t >= 2u (r < 2 for every 32-bit
   size) and when 1 + 49 (t - u) / u >= r^49 (Bernoulli). *)
EdgeBetween(series, u, t) ==
    \/ t >= 2 * u
    \/ LowEdge(series) * (u + (BIN_EDGES - 1) * (t - u)) >= HighEdge(series) * u

(* The possible binnings: a binning is the set of the sizes that are the
   least of their bin, the least size of all left out *)
Binnings(series) ==
    LET above == SizesOf(series) \ {min_size(series)}
    IN  {cuts \in SUBSET above :
            \A t \in above :
                EdgeBetween(series, SizeBelow(series, t), t) => t \in cuts}

(* 10**log10(min_size) may round above min_size, and then np.histogram
   leaves the entries equal to min_size out; 10**0.0 is exactly 1 *)
FirstEdgeAbove(series) == IF LowEdge(series) = 1 THEN {FALSE} ELSE BOOLEAN

(* The (center, count) pairs of the bins with a non-zero count:
   filtered_centers and filtered_counts, zipped *)
FilteredBins(series, cuts, above_min) ==
    LET counted == {i \in 1 .. Len(series) :
                        ~(above_min /\ series[i] = min_size(series))}
        binOf(v) == Cardinality({t \in cuts : t <= v})
    IN  {[sizes |-> {series[i] : i \in {j \in counted : binOf(series[j]) = k}},
          count |-> Cardinality({j \in counted : binOf(series[j]) = k})] :
            k \in {binOf(series[i]) : i \in counted}}

(* `if avalanche_sizes:` taken as always true *)
HasDataAlways(series) == TRUE

(* `if not avalanche_sizes:` *)
HasData(series) == series # << >>

(* `if len(filtered_centers) < 1:` *)
TooFewPointsBelowOne(n) == n < 1

(* `if len(filtered_centers) < 2:` *)
TooFewPoints(n) == n < 2

(* linregress: the results the model draws, as <<slope, intercept>> *)
Regressions == {<<-1, 1>>, <<0, 0>>}

(* tau_exponent = 1.0 + slope *)
FitSlopeAdded(slope, intercept) ==
    [slope |-> slope, intercept |-> intercept, tau_exponent |-> 1 + slope]

(* slope, intercept and tau_exponent = 1.0 - slope *)
Fit(slope, intercept) ==
    [slope |-> slope, intercept |-> intercept, tau_exponent |-> 1 - slope]

(* What the routine can report on this series and drop count *)
PlotReport(series, drops) ==
    IF ~HasData(series)
      THEN {[status |-> "no_data", recorded |-> 0, drops |-> 0,
             pairs |-> {}, fit |-> << >>]}
      ELSE UNION {
             LET pairs == FilteredBins(series, cuts, above_min) IN
             IF TooFewPoints(Cardinality(pairs))
               THEN {[status |-> "insufficient", recorded |-> Len(series),
                      drops |-> drops, pairs |-> pairs, fit |-> << >>]}
               ELSE {[status |-> "fit", recorded |-> Len(series),
                      drops |-> drops, pairs |-> pairs,
                      fit |-> <<Fit(lr[1], lr[2])>>] :
                        lr \in Regressions} :
               cuts \in Binnings(series), above_min \in FirstEdgeAbove(series)}

(* The routine emptying the series once it has plotted it *)
plot_avalanches_enhanced_clearing ==
    /\ plot_report' \in PlotReport(avalanche_sizes, total_drops)
    /\ avalanche_sizes' = << >>
    /\ UNCHANGED <<grid, total_drops>>

(* One call: the routine reads avalanche_sizes and total_drops and assigns
   no global *)
plot_avalanches_enhanced ==
    /\ plot_report' \in PlotReport(avalanche_sizes, total_drops)
    /\ UNCHANGED <<grid, avalanche_sizes, total_drops>>

NoReport == [status |-> "none", recorded |-> 0, drops |-> 0, pairs |-> {},
             fit |-> << >>]

-----------------------------------------------------------------------------
(* main() *)

(* `while running:`; the model stops after MaxFrames unpaused frames *)
WhileRunning ==
    /\ pc = "while"
    /\ IF running
         THEN /\ frame_count < MaxFrames
              /\ pc' = "events"
              /\ events_handled' = 0
         ELSE /\ pc' = "quit"
              /\ UNCHANGED events_handled
    /\ UNCHANGED <<otherScripts, GRID_SIZE, grid, avalanche_sizes, total_drops, screen, plot_report,
                   running, paused, frame_count, drop_i, avalanche_this_step, x, y,
                   toppleLocals, history>>

HandleEvent ==
    /\ pc = "events"
    /\ events_handled < MaxEvents
    /\ events_handled' = events_handled + 1

(* pygame.QUIT *)
EventQuit ==
    /\ HandleEvent
    /\ running' = FALSE
    /\ UNCHANGED <<otherScripts, GRID_SIZE, grid, avalanche_sizes, total_drops, screen, plot_report,
                   paused, frame_count, drop_i, avalanche_this_step, x, y,
                   toppleLocals, pc, history>>

(* KEYDOWN K_SPACE *)
EventSpace ==
    /\ HandleEvent
    /\ paused' = ~paused
    /\ UNCHANGED <<otherScripts, GRID_SIZE, grid, avalanche_sizes, total_drops, screen, plot_report,
                   running, frame_count, drop_i, avalanche_this_step, x, y,
                   toppleLocals, pc, history>>

(* KEYDOWN K_p *)
EventPlot ==
    /\ HandleEvent
    /\ IF avalanche_sizes # << >>
         THEN plot_avalanches_enhanced
         ELSE UNCHANGED <<grid, avalanche_sizes, total_drops, plot_report>>
    /\ UNCHANGED <<otherScripts, GRID_SIZE, screen, running,
                   paused, frame_count, drop_i, avalanche_this_step, x, y,
                   toppleLocals, pc, history>>

(* The event batch is exhausted and the simulation step runs whatever the
   paused flag says *)
EventsDoneIgnoringPause ==
    /\ pc = "events"
    /\ pc' = "drop"
    /\ drop_i' = 0
    /\ UNCHANGED <<otherScripts, GRID_SIZE, grid, avalanche_sizes, total_drops, screen, plot_report,
                   running, paused, frame_count, events_handled, avalanche_this_step,
                   x, y, toppleLocals, history>>

(* The event batch is exhausted: `if not paused:` *)
EventsDone ==
    /\ pc = "events"
    /\ pc' = IF paused THEN "draw" ELSE "drop"
    /\ drop_i' = 0
    /\ UNCHANGED <<otherScripts, GRID_SIZE, grid, avalanche_sizes, total_drops, screen, plot_report,
                   running, paused, frame_count, events_handled, avalanche_this_step,
                   x, y, toppleLocals, history>>

(* The iteration with add_sand(GRID_SIZE, GRID_SIZE // 2) *)
MainDropAtEdge ==
    /\ pc = "drop"
    /\ drop_i < SAND_DROPS_PER_FRAME
    /\ drop_i' = drop_i + 1
    /\ add_sand(GRID_SIZE, GRID_SIZE \div 2, "topple")

(* One iteration of `for _ in range(SAND_DROPS_PER_FRAME)` starts *)
MainDrop ==
    /\ pc = "drop"
    /\ drop_i < SAND_DROPS_PER_FRAME
    /\ drop_i' = drop_i + 1
    /\ add_sand(GRID_SIZE \div 2, GRID_SIZE \div 2, "topple")

(* The for loop is exhausted: frame_count += 1 *)
MainStepEnd ==
    /\ pc = "drop"
    /\ drop_i = SAND_DROPS_PER_FRAME
    /\ frame_count' = frame_count + 1
    /\ pc' = "draw"
    /\ UNCHANGED <<otherScripts, GRID_SIZE, grid, avalanche_sizes, total_drops, screen, plot_report,
                   running, paused, drop_i, events_handled, avalanche_this_step, x, y,
                   toppleLocals, history>>

DrawGrid ==
    /\ pc = "draw"
    /\ screen' = Rendered(grid)
    /\ pc' = "while"
    /\ UNCHANGED <<otherScripts, GRID_SIZE, grid, avalanche_sizes, total_drops, plot_report,
                   mainLocals, avalanche_this_step, x, y, toppleLocals, history>>

(* pygame.quit() and the final plot_avalanches_enhanced() *)
Quit ==
    /\ pc = "quit"
    /\ plot_avalanches_enhanced
    /\ pc' = "done"
    /\ UNCHANGED <<otherScripts, GRID_SIZE, screen, mainLocals,
                   avalanche_this_step, x, y, toppleLocals, history>>

-----------------------------------------------------------------------------
(* Initial states *)

InitLocals ==
    /\ screen = Zeros
    /\ plot_report = NoReport
    /\ running = TRUE
    /\ paused = FALSE
    /\ frame_count = 0
    /\ drop_i = 0
    /\ events_handled = 0
    /\ avalanche_this_step = 0
    /\ x = 0
    /\ y = 0
    /\ total_avalanche_size_for_this_drop = 0
    /\ topple_indices = << >>
    /\ additions = Zeros
    /\ lost = 0
    /\ initial_total = SumGrid(grid)
    /\ in_bounds_calls = 0
    /\ add_sand_calls = 0
    /\ topple_calls = 0
    /\ passes = 0
    /\ grid_at_call = grid
    /\ at_drop = Snapshot
    /\ safety_break = FALSE
    /\ pass_start = [grid |-> grid, cells |-> << >>]
    /\ topple_count = Zeros

InitSandpile ==
    /\ avalanche_sizes = << >>
    /\ total_drops = 0
    /\ InitLocals

InitRest ==
    /\ InitSandpile
    /\ BML_Unloaded
    /\ Ant_Unloaded

(* The program as loaded: np.zeros grid, empty series, main() about to run *)
Init ==
    /\ GRID_SIZE \in 1 .. MaxGridMain
    /\ grid = Zeros
    /\ pc = "while"
    /\ InitRest

Next ==
    \/ WhileRunning \/ EventQuit \/ EventSpace \/ EventPlot \/ EventsDone
    \/ MainDrop \/ MainStepEnd \/ DrawGrid \/ Quit
    \/ ToppleCall \/ ToppleWhile \/ ToppleNext \/ ToppleApply \/ ToppleReturn
    \/ RecordAvalanche

Spec == Init /\ [][Next]_vars

-----------------------------------------------------------------------------
(* Callers other than main(): the functions of the module called on grids
   and targets main() does not produce. *)

(* The sequences of k naturals whose sum is at most m *)
RECURSIVE Piles(_, _)
Piles(k, m) ==
    IF k = 0 THEN {<< >>}
    ELSE UNION {{Append(s, v) : s \in Piles(k - 1, m - v)} : v \in 0 .. m}

(* The grid holding b everywhere plus the piles s, s read in row-major order *)
GridOf(b, s) == [c \in Cells |-> b + s[c[1] * GRID_SIZE + c[2] + 1]]

(* The grid holding b everywhere and b + h at cell p *)
OnePile(b, p, h) == [c \in Cells |-> IF c = p THEN b + h ELSE b]

(* topple() called on a grid of non-negative integers, and called again after
   it returned.  The grids: a level b below the threshold everywhere, plus
   either up to MaxMass grains scattered in every possible way or one pile of
   up to MaxHeight grains on any cell. *)
InitGridWith(m) ==
    /\ GRID_SIZE \in 1 .. MaxGrid
    /\ \E b \in 0 .. (THRESHOLD - 1) :
         \/ \E s \in Piles(GRID_SIZE * GRID_SIZE, m) : grid = GridOf(b, s)
         \/ \E p \in Cells : \E h \in 0 .. MaxHeight : grid = OnePile(b, p, h)

InitToppleWith(m) ==
    /\ InitGridWith(m)
    /\ pc = "topple"
    /\ InitRest

InitTopple == InitToppleWith(MaxMass)

ToppleAgain ==
    /\ pc = "drop"
    /\ topple_calls < MaxToppleCalls
    /\ pc' = "topple"
    /\ UNCHANGED <<otherScripts, GRID_SIZE, grid, avalanche_sizes, total_drops, screen, plot_report,
                   mainLocals, avalanche_this_step, x, y, toppleLocals, history>>

NextTopple ==
    \/ ToppleCall \/ ToppleWhile \/ ToppleNext \/ ToppleApply \/ ToppleReturn
    \/ RecordAvalanche \/ ToppleAgain

SpecTopple == InitTopple /\ [][NextTopple]_vars

(* One call of topple() on the same grids; a sequential program that can
   take a step takes it *)
NextOneTopple ==
    \/ ToppleCall \/ ToppleWhile \/ ToppleNext \/ ToppleApply \/ ToppleReturn
    \/ RecordAvalanche

FairSpecTopple == InitTopple /\ [][NextOneTopple]_vars /\ WF_vars(NextOneTopple)

(* One call with the for loop of a pass visiting its cells in any order *)
NextAnyOrder ==
    \/ ToppleCall \/ ToppleWhile \/ ToppleAny \/ ToppleApply \/ ToppleReturn
    \/ RecordAvalanche

InitAnyOrder == InitToppleWith(MaxScatter)

SpecAnyOrder == InitAnyOrder /\ [][NextAnyOrder]_vars

(* Cycles of add_sand(x, y), topple(), record_avalanche(), as in the body of
   main()'s for loop, each followed by draw_grid(); after any cycle the
   caller may stop and call plot_avalanches_enhanced(), as main() does when
   it exits; from a stable grid holding the same level everywhere, with any
   target inside or one step outside the grid *)
InitCycle ==
    /\ GRID_SIZE \in 1 .. MaxGrid
    /\ \E b \in 0 .. (THRESHOLD - 1) : grid = [c \in Cells |-> b]
    /\ pc = "cycle"
    /\ InitRest

CycleDrop ==
    /\ pc = "cycle"
    /\ add_sand_calls < MaxCycles
    /\ \E xx \in -1 .. GRID_SIZE : \E yy \in -1 .. GRID_SIZE :
          add_sand(xx, yy, "topple")
    /\ UNCHANGED drop_i

CycleDraw ==
    /\ pc = "drop"
    /\ screen' = Rendered(grid)
    /\ pc' \in {"cycle", "plot"}
    /\ UNCHANGED <<otherScripts, GRID_SIZE, grid, avalanche_sizes, total_drops, plot_report,
                   mainLocals, avalanche_this_step, x, y, toppleLocals, history>>

CyclePlot ==
    /\ pc = "plot"
    /\ plot_avalanches_enhanced
    /\ pc' = "done"
    /\ UNCHANGED <<otherScripts, GRID_SIZE, screen, mainLocals,
                   avalanche_this_step, x, y, toppleLocals, history>>

NextCycle ==
    \/ CycleDrop
    \/ ToppleCall \/ ToppleWhile \/ ToppleNext \/ ToppleApply \/ ToppleReturn
    \/ RecordAvalanche \/ CycleDraw \/ CyclePlot

SpecCycle == InitCycle /\ [][NextCycle]_vars

(* draw_grid() called once on the grids of the topple harness, cells at 4
   or more included *)
InitDraw ==
    /\ InitGridWith(MaxMass)
    /\ pc = "draw"
    /\ InitRest

NextDraw == DrawGrid

SpecDraw == InitDraw /\ [][NextDraw]_vars

(* The sequences of at most n sizes between 1 and MaxSize *)
RECURSIVE SeriesUpTo(_)
SeriesUpTo(n) ==
    IF n = 0 THEN {<< >>}
    ELSE SeriesUpTo(n - 1) \cup
         {Append(q, v) : q \in {r \in SeriesUpTo(n - 1) : Len(r) = n - 1},
                         v \in 1 .. MaxSize}

(* plot_avalanches_enhanced() called once on any series of positive sizes,
   the drop counter at the length of the series or one above *)
InitPlot ==
    /\ GRID_SIZE = 1
    /\ grid = Zeros
    /\ avalanche_sizes \in SeriesUpTo(MaxSeries)
    /\ total_drops \in {Len(avalanche_sizes), Len(avalanche_sizes) + 1}
    /\ pc = "plot"
    /\ InitLocals
    /\ BML_Unloaded
    /\ Ant_Unloaded

NextPlot == CyclePlot

SpecPlot == InitPlot /\ [][NextPlot]_vars

-----------------------------------------------------------------------------
(* Properties *)

Stable(g) == \A c \in Cells : g[c] < 4

(* C1: when topple() returns, whatever grid of non-negative integers it was
   called on, no cell of the grid holds 4 or more. *)
C1_StableOnReturn == pc = "record" => \A c \in Cells : grid[c] < 4

(* topple() has returned from a grid with a pile of 8 or more, after at
   least two passes *)
C1_Witness ==
    /\ pc = "record"
    /\ passes >= 2
    /\ \E c \in Cells : grid_at_call[c] >= 8

(* C2: every call of topple() on a finite grid of non-negative integers
   returns: the pass loop ends after finitely many passes and the avalanche
   size is handed to the caller. *)
C2_ToppleTerminates == (pc = "topple") ~> (pc = "record")

(* topple() has returned after three passes or more *)
C2_Witness ==
    /\ pc = "record"
    /\ passes >= 3
    /\ avalanche_this_step = total_avalanche_size_for_this_drop

AddSandStep == add_sand_calls' = add_sand_calls + 1

(* C3: at the end of every add_sand + topple cycle of a run that started from
   a grid with all cells below 4, the grid total plus the grains lost off
   the boundaries equals the initial total plus the number of successful
   drops. *)
C3_Conservation ==
    pc = "drop" => SumGrid(grid) + lost = initial_total + in_bounds_calls

(* Two cycles or more are over, grains were lost and an avalanche recorded *)
C3_Witness ==
    /\ pc = "drop"
    /\ in_bounds_calls >= 2
    /\ lost > 0
    /\ avalanche_sizes # << >>
    /\ GRID_SIZE = 3

(* The function f over the cells, with every value computed once *)
RECURSIVE ValuesUpTo(_, _)
ValuesUpTo(f, k) ==
    IF k = 0 THEN << >> ELSE Append(ValuesUpTo(f, k - 1), f[RowMajor[k]])

Evaluated(f) ==
    LET t == ValuesUpTo(f, GRID_SIZE * GRID_SIZE)
    IN  [c \in Cells |-> t[c[1] * GRID_SIZE + c[2] + 1]]

(* One synchronous pass as a function of the grid: every cell at 4 or more
   loses 4, every cell gains one grain per neighbour at 4 or more *)
PassOf(g) ==
    Evaluated([c \in Cells |->
        g[c] - (IF g[c] >= 4 THEN 4 ELSE 0)
             + Cardinality({n \in VonNeumann(c[1], c[2]) \cap Cells : g[n] >= 4})])

RECURSIVE Relaxed(_)
Relaxed(g) == IF Stable(g) THEN g ELSE Relaxed(PassOf(g))

RECURSIVE Topplings(_)
Topplings(g) ==
    IF Stable(g) THEN 0
    ELSE Cardinality({c \in Cells : g[c] >= 4}) + Topplings(PassOf(g))

(* C4: the grid topple() leaves and the avalanche size it returns are
   functions of the grid it was called on, whatever order the cells of a
   pass are processed in. *)
C4_OrderIndependent ==
    pc = "record" =>
        /\ grid = Relaxed(grid_at_call)
        /\ avalanche_this_step = Topplings(grid_at_call)

(* topple() has returned from a grid with two unstable cells, after several
   passes of which one toppled three cells or more, so that these passes
   could take their cells in several orders *)
C4_Witness ==
    /\ pc = "record"
    /\ Cardinality({c \in Cells : grid_at_call[c] >= 4}) = 2
    /\ passes >= 3
    /\ avalanche_this_step >= 2 * passes + 1

(* C5: topple() called on a grid with every cell below 4 returns 0 and leaves
   the grid as it was; so a second call right after a first returns 0 and
   changes nothing. *)
C5_Idempotent ==
    pc = "record" =>
        /\ Stable(grid_at_call) => (avalanche_this_step = 0 /\ grid = grid_at_call)
        /\ topple_calls >= 2 => (avalanche_this_step = 0 /\ grid = grid_at_call)

(* The second call has returned, the first one having toppled cells *)
C5_Witness ==
    /\ pc = "record"
    /\ topple_calls = 2
    /\ avalanche_sizes # << >>
    /\ \E c \in Cells : grid[c] = 3

(* C6: a drop onto a stable grid that leaves its target cell below 4 gives
   avalanche size 0 and no new entry in the series, while the drop counter
   has grown by 1. *)
C6_ZeroAvalancheNotRecorded ==
    (/\ pc = "drop"
     /\ <<y, x>> \in Cells
     /\ Stable(at_drop.grid)
     /\ at_drop.grid[<<y, x>>] + 1 < 4)
    => /\ avalanche_this_step = 0
       /\ avalanche_sizes = at_drop.series
       /\ total_drops = at_drop.drops + 1

(* Such a drop has been made after an earlier avalanche was recorded *)
C6_Witness ==
    /\ pc = "drop"
    /\ <<y, x>> \in Cells
    /\ at_drop.grid[<<y, x>>] + 1 < 4
    /\ at_drop.series # << >>
    /\ total_drops = at_drop.drops + 1

(* C7: add_sand(x, y) with x or y outside [0, GRID_SIZE) changes no cell and
   not the drop counter, and raises no error. *)
C7_OutOfBoundsNoOp ==
    [][(AddSandStep /\ <<y', x'>> \notin Cells)
         => /\ grid' = grid
            /\ total_drops' = total_drops
            /\ avalanche_sizes' = avalanche_sizes
            /\ pc' # "IndexError"]_vars

(* add_sand has been called with a negative x and y = GRID_SIZE *)
C7_Witness ==
    /\ pc = "topple"
    /\ x = -1
    /\ y = GRID_SIZE
    /\ at_drop.grid = grid

(* C8: add_sand(x, y) with x and y in [0, GRID_SIZE) adds 1 to the cell at
   row y, column x and 1 to the drop counter, and leaves every other cell and
   the series as they were. *)
C8_DropEffect ==
    [][(AddSandStep /\ <<y', x'>> \in Cells)
         => /\ grid' = [grid EXCEPT ![<<y', x'>>] = @ + 1]
            /\ total_drops' = total_drops + 1
            /\ avalanche_sizes' = avalanche_sizes
            /\ pc' # "IndexError"]_vars

(* add_sand has been called on a cell off the diagonal *)
C8_Witness ==
    /\ pc = "topple"
    /\ <<y, x>> \in Cells
    /\ x # y
    /\ grid[<<y, x>>] = at_drop.grid[<<y, x>>] + 1

(* C9: the drop counter always equals the number of add_sand calls whose
   target was in bounds; no step decreases it, and only an add_sand call
   changes it: topple, record_avalanche, draw_grid and the plot leave it. *)
C9_DropCount ==
    /\ [](total_drops = in_bounds_calls)
    /\ [][/\ total_drops' >= total_drops
          /\ ~AddSandStep => total_drops' = total_drops]_vars

(* Calls in and out of bounds were made, an avalanche recorded, the grid
   drawn and a figure plotted *)
C9_Witness ==
    /\ pc = "done"
    /\ in_bounds_calls >= 2
    /\ add_sand_calls > in_bounds_calls
    /\ avalanche_sizes # << >>
    /\ plot_report.status \in {"insufficient", "fit"}
    /\ screen = Rendered(grid)

(* C10: on the 5 x 5 all-zero grid, the first three drop + topple cycles on
   cell (2, 2) give avalanche size 0; the fourth takes exactly one pass and
   leaves 0 on (2, 2), 1 on (1, 2), (3, 2), (2, 1), (2, 3) and 0 elsewhere;
   then the series is [1], the drop counter 4 and the grid total 4. *)
C10_Scenario ==
    (GRID_SIZE = 5 /\ pc = "drop") =>
        /\ add_sand_calls \in 1 .. 3 =>
              /\ x = 2 /\ y = 2
              /\ avalanche_this_step = 0
              /\ avalanche_sizes = << >>
              /\ grid = [c \in Cells |-> IF c = <<2, 2>> THEN add_sand_calls ELSE 0]
        /\ add_sand_calls = 4 =>
              /\ x = 2 /\ y = 2
              /\ passes = 1
              /\ avalanche_this_step = 1
              /\ grid = [c \in Cells |->
                            IF c \in {<<1, 2>>, <<3, 2>>, <<2, 1>>, <<2, 3>>}
                              THEN 1 ELSE 0]
              /\ avalanche_sizes = <<1>>
              /\ total_drops = 4
              /\ SumGrid(grid) = 4

(* The fourth cycle on the 5 x 5 grid is over *)
C10_Witness ==
    /\ GRID_SIZE = 5
    /\ pc = "drop"
    /\ add_sand_calls = 4
    /\ passes = 1

-----------------------------------------------------------------------------
(* The for loop of a pass is about to process cell c *)
Toppling(c) ==
    /\ pc = "topple_for"
    /\ topple_indices # << >>
    /\ Head(topple_indices) = c

Directions == {<<0, -1>>, <<0, 1>>, <<-1, 0>>, <<1, 0>>}
Toward(c, d) == <<c[1] + d[1], c[2] + d[2]>>

(* C11: on a grid of side 2 or more, when the corner cell (0,0) topples,
   the cell loses 4, exactly (0,1) and (1,0) receive one grain each and 2
   grains are lost; a pass that topples the corner alone leaves the grid
   total 2 below the total before it. *)
C11_CornerLoss ==
    /\ [][(Toppling(<<0, 0>>) /\ GRID_SIZE >= 2)
            => /\ grid' = [grid EXCEPT ![<<0, 0>>] = @ - 4]
               /\ additions' = [additions EXCEPT ![<<0, 1>>] = @ + 1,
                                                  ![<<1, 0>>] = @ + 1]
               /\ lost' = lost + 2
               /\ SumGrid(grid') + SumGrid(additions')
                     = SumGrid(grid) + SumGrid(additions) - 2]_vars
    /\ []((/\ pc = "topple_while"
           /\ GRID_SIZE >= 2
           /\ pass_start.cells = << <<0, 0>> >>)
          => /\ grid = [pass_start.grid EXCEPT ![<<0, 0>>] = @ - 4,
                                               ![<<0, 1>>] = @ + 1,
                                               ![<<1, 0>>] = @ + 1]
             /\ SumGrid(grid) = SumGrid(pass_start.grid) - 2)

(* A pass that toppled the corner alone has ended on a grid of side 3 *)
C11_Witness ==
    /\ pc = "topple_while"
    /\ GRID_SIZE = 3
    /\ pass_start.cells = << <<0, 0>> >>
    /\ grid[<<0, 1>>] = pass_start.grid[<<0, 1>>] + 1
    /\ grid[<<1, 0>>] = pass_start.grid[<<1, 0>>] + 1
    /\ grid[<<0, 2>>] = pass_start.grid[<<0, 2>>]
    /\ SumGrid(grid) = SumGrid(pass_start.grid) - 2

(* C12: a toppling cell loses 4 and gives exactly one grain to each of its
   von Neumann neighbours inside the grid and to no other cell; every grain
   directed at a neighbour outside the grid is lost. *)
C12_OpenBoundary ==
    [][\A c \in Cells :
          Toppling(c)
          => /\ grid' = [grid EXCEPT ![c] = @ - 4]
             /\ additions' =
                   [n \in Cells |->
                       additions[n]
                         + (IF n \in VonNeumann(c[1], c[2]) THEN 1 ELSE 0)]
             /\ lost' = lost + 4
                          - Cardinality(VonNeumann(c[1], c[2]) \cap Cells)]_vars

(* On a grid of side 3 a pass has toppled an edge cell and the centre: the
   centre received the edge cell's grain, grains left the grid *)
C12_Witness ==
    /\ pc = "topple_for"
    /\ GRID_SIZE = 3
    /\ topple_indices = << >>
    /\ pass_start.cells = << <<1, 0>>, <<1, 1>> >>
    /\ additions[<<1, 1>>] = 1
    /\ additions[<<1, 0>>] = 1
    /\ additions[<<1, 2>>] = 1
    /\ lost >= 1

(* The cell of the torus that the index pair n denotes *)
Wrapped(n) == <<n[1] % GRID_SIZE, n[2] % GRID_SIZE>>

(* The grains cell m receives from a toppling cell c on a torus *)
TorusGain(c, m) == Cardinality({d \in Directions : Wrapped(Toward(c, d)) = m})

(* C13 as stated: a grain sent by a toppling edge cell toward a missing
   neighbour arrives at the cell on the opposite edge. *)
C13_Toroidal ==
    [][\A c \in Cells : \A d \in Directions :
          (Toppling(c) /\ Toward(c, d) \notin Cells)
          => additions'[Wrapped(Toward(c, d))]
               = additions[Wrapped(Toward(c, d))]
                   + TorusGain(c, Wrapped(Toward(c, d)))]_vars

(* C13, amended: the grid is not a torus.  A grain sent by a toppling edge
   cell toward a missing neighbour arrives nowhere: the cell on the opposite
   edge gains a grain only when it is itself a neighbour inside the grid,
   and the pass's additions grow by the number of neighbours inside the
   grid only. *)
C13_NoWrap ==
    [][\A c \in Cells : \A d \in Directions :
          (Toppling(c) /\ Toward(c, d) \notin Cells)
          => /\ additions'[Wrapped(Toward(c, d))]
                  = additions[Wrapped(Toward(c, d))]
                      + (IF Wrapped(Toward(c, d)) \in VonNeumann(c[1], c[2])
                           THEN 1 ELSE 0)
             /\ SumGrid(additions') - SumGrid(additions)
                  = Cardinality(VonNeumann(c[1], c[2]) \cap Cells)]_vars

(* On a grid of side 3 a pass has toppled the left edge cell (1,0) alone:
   the cell (1,2) on the opposite edge received nothing *)
C13_Witness ==
    /\ pc = "topple_for"
    /\ GRID_SIZE = 3
    /\ topple_indices = << >>
    /\ pass_start.cells = << <<1, 0>> >>
    /\ additions[<<1, 2>>] = 0
    /\ additions[<<1, 1>>] = 1
    /\ lost = 1

(* C14: the value topple() returns is the sum, over the passes of the call,
   of the number of cells at 4 or more when the pass starts; it is the
   number of toppling events, a cell that topples in k passes counting k
   times. *)
C14_AvalancheSize ==
    pc = "record" =>
        /\ avalanche_this_step = Topplings(grid_at_call)
        /\ avalanche_this_step = SumGrid(topple_count)

(* topple() has returned after a cell toppled in three passes of the call *)
C14_Witness ==
    /\ pc = "record"
    /\ \E c \in Cells : topple_count[c] = 3
    /\ passes >= 3
    /\ avalanche_this_step > passes

(* C15: record_avalanche(size) appends size to the end of the series when
   size > 0, leaves the series alone otherwise, and changes nothing else;
   no other step changes the series; so the series holds positive integers
   only and every step keeps the entries it had, in their places. *)
C15_AppendOnly ==
    /\ [](\A i \in 1 .. Len(avalanche_sizes) : avalanche_sizes[i] \in Nat \ {0})
    /\ [][IF pc = "record"
            THEN /\ avalanche_sizes' =
                      IF avalanche_this_step > 0
                        THEN Append(avalanche_sizes, avalanche_this_step)
                        ELSE avalanche_sizes
                 /\ UNCHANGED <<grid, total_drops, screen, plot_report,
                                avalanche_this_step>>
            ELSE avalanche_sizes' = avalanche_sizes]_vars
    /\ [][/\ Len(avalanche_sizes') >= Len(avalanche_sizes)
          /\ SubSeq(avalanche_sizes', 1, Len(avalanche_sizes)) = avalanche_sizes]_vars

(* Three drops were made: two avalanches of different sizes are in the
   series, in the order of their drops, and the latest drop toppled nothing
   and added no entry *)
C15_Witness ==
    /\ pc = "drop"
    /\ add_sand_calls = 3
    /\ Len(avalanche_sizes) = 2
    /\ avalanche_sizes[1] # avalanche_sizes[2]
    /\ avalanche_this_step = 0
    /\ at_drop.series = avalanche_sizes

(* C16: in main(), whenever the loop tests `running`, handles events, is
   about to drop a grain, draws the grid or has left the loop, every cell is
   below 4: each drop's topple() has run to completion. *)
C16_StableBetweenCycles ==
    pc \in {"while", "events", "drop", "draw", "quit", "done"} => Stable(grid)

(* An event is being handled in a frame that follows ten drops or more and
   at least two avalanches; a cell holds 3 *)
C16_Witness ==
    /\ pc = "events"
    /\ events_handled = 1
    /\ total_drops >= 10
    /\ Len(avalanche_sizes) >= 2
    /\ \E c \in Cells : grid[c] = 3

(* C17: from a grid of non-negative integers, every cell of the grid and of
   the pass's additions is a non-negative integer in every state, the
   states inside a pass included. *)
C17_NonNegative ==
    \A c \in Cells : grid[c] \in Nat /\ additions[c] \in Nat

(* Inside a pass: a cell that held exactly 4 has been decreased to 0, other
   cells of the pass are still to be processed and the additions are not
   applied yet *)
C17_Witness ==
    /\ pc = "topple_for"
    /\ topple_indices # << >>
    /\ additions # Zeros
    /\ \E c \in Cells : pass_start.grid[c] = 4 /\ grid[c] = 0

(* C18: plot_avalanches_enhanced() called with an empty series reports that
   there is no data and returns to its caller: it exposes no bin and no
   fit, and leaves the series, the drop counter and the grid as they
   were. *)
C18_NoData ==
    [][(pc = "plot" /\ avalanche_sizes = << >>)
         => /\ plot_report'.status = "no_data"
            /\ plot_report'.pairs = {}
            /\ plot_report'.fit = << >>
            /\ pc' = "done"
            /\ UNCHANGED <<avalanche_sizes, total_drops, grid>>]_vars

(* The routine has reported no data after two drops that toppled nothing *)
C18_Witness ==
    /\ pc = "done"
    /\ plot_report.status = "no_data"
    /\ avalanche_sizes = << >>
    /\ total_drops = 2

(* C19: on a non-empty series, when fewer than 2 bins of the histogram have
   a non-zero count the routine reports insufficient data and computes no
   slope, intercept or exponent, while the pairs of the non-empty bins are
   still exposed; with 2 non-empty bins or more it computes a fit.  A series
   whose entries all have the same size is in the first case; a series
   holding 1 and a size twice another is in the second. *)
C19_FitDegeneracy ==
    (pc = "done" /\ avalanche_sizes # << >>)
    => /\ plot_report.status \in {"insufficient", "fit"}
       /\ Cardinality(plot_report.pairs) < 2
            => (plot_report.status = "insufficient" /\ plot_report.fit = << >>)
       /\ Cardinality(plot_report.pairs) >= 2
            => (/\ plot_report.status = "fit"
                /\ Len(plot_report.fit) = 1
                /\ plot_report.fit[1].tau_exponent \in Int)
       /\ \A p \in plot_report.pairs :
             /\ p.count > 0
             /\ p.sizes # {}
             /\ p.sizes \subseteq SizesOf(avalanche_sizes)
             /\ p.count = Cardinality({i \in 1 .. Len(avalanche_sizes) :
                                          avalanche_sizes[i] \in p.sizes})
       /\ Cardinality(SizesOf(avalanche_sizes)) = 1
            => /\ plot_report.status = "insufficient"
               /\ \A p \in plot_report.pairs :
                     p.count = Len(avalanche_sizes)
       /\ (/\ 1 \in SizesOf(avalanche_sizes)
            /\ \E u, t \in SizesOf(avalanche_sizes) : t >= 2 * u)
            => plot_report.status = "fit"

(* The routine has reported insufficient data on a series of three equal
   sizes and exposed the one bin that holds them *)
C19_Witness ==
    /\ pc = "done"
    /\ avalanche_sizes = <<3, 3, 3>>
    /\ plot_report.status = "insufficient"
    /\ plot_report.pairs = {[sizes |-> {3}, count |-> 3]}

(* C20: a call of plot_avalanches_enhanced(), whether it reports no data,
   insufficient data or a fit, leaves the series, the drop counter and the
   grid exactly as they were. *)
C20_PlotReadOnly ==
    [][pc = "plot"
         => /\ plot_report'.status \in {"no_data", "insufficient", "fit"}
            /\ avalanche_sizes' = avalanche_sizes
            /\ total_drops' = total_drops
            /\ grid' = grid]_vars

(* The routine has returned a fit on a series of two avalanches, the grid
   holding grains *)
C20_Witness ==
    /\ pc = "done"
    /\ plot_report.status = "fit"
    /\ Len(avalanche_sizes) = 2
    /\ plot_report.recorded = 2
    /\ plot_report.drops = total_drops
    /\ \E c \in Cells : grid[c] > 0

(* C21: draw_grid() changes no cell of the grid, not the drop counter and not
   the series; the palette index it uses for a cell holding v > 0 is v when
   v <= 4 and 4 otherwise, and every index it uses is an index of the
   palette. *)
C21_DrawClamped ==
    [][pc = "draw"
         => /\ UNCHANGED <<grid, total_drops, avalanche_sizes>>
            /\ \A c \in Cells :
                  /\ screen'[c] \in 0 .. (PALETTE_LEN - 1)
                  /\ grid[c] > 0 =>
                        screen'[c] = (IF grid[c] <= 4 THEN grid[c] ELSE 4)]_vars

(* The grid of side 3 has been drawn with a cell at 9, painted with the last
   palette entry, next to a cell at 2 painted with entry 2 *)
C21_Witness ==
    /\ pc = "while"
    /\ GRID_SIZE = 3
    /\ \E c \in Cells : grid[c] = 9 /\ screen[c] = 4
    /\ \E c \in Cells : grid[c] = 2 /\ screen[c] = 2

(* C22: whenever plot_avalanches_enhanced() produces a fit, the exponent it
   reports is 1 minus the slope of the regression. *)
C22_TauExponent ==
    (pc = "done" /\ plot_report.status = "fit")
    => /\ Len(plot_report.fit) = 1
       /\ plot_report.fit[1].tau_exponent = 1 - plot_report.fit[1].slope

(* A fit with slope -1 has been reported on a series with three bins: the
   exponent is 2 *)
C22_Witness ==
    /\ pc = "done"
    /\ plot_report.status = "fit"
    /\ Cardinality(plot_report.pairs) = 3
    /\ plot_report.fit[1].slope = -1
    /\ plot_report.fit[1].tau_exponent = 2

(* The cells of a sequence *)
Range(q) == {q[i] : i \in 1 .. Len(q)}

(* The cells of the current pass already processed by its for loop *)
Processed == Range(pass_start.cells) \ Range(topple_indices)

(* C23: the cells a pass topples are exactly the cells at 4 or more when the
   pass starts, each once; while the pass runs, a processed cell holds its
   starting value minus 4 (also when that leaves it at 4 or more) and every
   other cell its starting value, the grains sent so far being held in
   additions; they reach the grid in one step after the last cell, which
   makes the pass the synchronous one. *)
C23_PassSynchrony ==
    /\ pc = "topple_for" =>
          /\ Range(pass_start.cells) = {c \in Cells : pass_start.grid[c] >= 4}
          /\ Len(pass_start.cells) = Cardinality(Range(pass_start.cells))
          /\ Len(topple_indices) = Cardinality(Range(topple_indices))
          /\ Range(topple_indices) \subseteq Range(pass_start.cells)
          /\ \A c \in Cells :
                /\ grid[c] = pass_start.grid[c]
                               - (IF c \in Processed THEN 4 ELSE 0)
                /\ additions[c] =
                      Cardinality(VonNeumann(c[1], c[2]) \cap Processed)
    /\ (pc = "topple_while" /\ pass_start.cells # << >>) =>
          grid = PassOf(pass_start.grid)

(* A pass has processed all its cells, among them one that held 8 or more
   and still holds 4 or more, and has not applied its additions yet: a cell
   that held 3 has a grain waiting and still holds 3 *)
C23_Witness ==
    /\ pc = "topple_for"
    /\ topple_indices = << >>
    /\ Len(pass_start.cells) >= 3
    /\ \E c \in Processed : pass_start.grid[c] >= 8 /\ grid[c] >= 4
    /\ \E c \in Cells : grid[c] = 3 /\ additions[c] >= 1

(* A pass has just ended: its additions are applied and still in the
   scratch grid *)
PassEnded == pc = "topple_while" /\ pass_start.cells # << >>

(* The grid total before the latest pass minus the total after it *)
PassLoss == SumGrid(pass_start.grid) - SumGrid(grid)

(* The cells of the latest pass with a neighbour outside the grid *)
BoundaryToppled == {c \in Range(pass_start.cells) : OffGrid(c[1], c[2]) > 0}

(* C24: no pass increases the grid total; a pass that topples cells with
   their four neighbours in the grid only leaves it unchanged, a pass that
   topples an edge or corner cell decreases it. *)
C24_MassNonIncreasing ==
    PassEnded =>
        /\ SumGrid(grid) <= SumGrid(pass_start.grid)
        /\ BoundaryToppled = {} => SumGrid(grid) = SumGrid(pass_start.grid)
        /\ BoundaryToppled # {} => SumGrid(grid) < SumGrid(pass_start.grid)

(* On the grid of side 3 a pass that toppled the centre alone has kept the
   total, after an earlier pass of the call lost grains *)
C24_Witness ==
    /\ PassEnded
    /\ GRID_SIZE = 3
    /\ pass_start.cells = << <<1, 1>> >>
    /\ passes >= 2
    /\ lost > 0
    /\ SumGrid(grid) = SumGrid(pass_start.grid)

(* The grains the cells of q with a neighbour outside the grid send to
   their neighbours inside it *)
RECURSIVE DeliveredByBoundary(_)
DeliveredByBoundary(q) ==
    IF q = << >> THEN 0
    ELSE (IF OffGrid(Head(q)[1], Head(q)[2]) > 0
            THEN Cardinality(VonNeumann(Head(q)[1], Head(q)[2]) \cap Cells)
            ELSE 0)
         + DeliveredByBoundary(Tail(q))

(* C25 as stated: the grains that leave the grid in a pass are 4 times the
   number of boundary cells toppled in the pass minus the grains delivered
   to in-bounds neighbours in the pass. *)
C25_LossAllDeliveries ==
    PassEnded =>
        PassLoss = 4 * Cardinality(BoundaryToppled) - SumGrid(additions)

(* C25, amended: the grains that leave the grid in a pass are 4 times the
   number of boundary cells toppled in the pass minus the grains those
   boundary cells deliver to their in-bounds neighbours; counting every
   cell of the pass, they are 4 times the number of cells toppled minus all
   the grains delivered in the pass. *)
C25_LossBoundaryDeliveries ==
    PassEnded =>
        /\ PassLoss = 4 * Cardinality(BoundaryToppled)
                        - DeliveredByBoundary(pass_start.cells)
        /\ PassLoss = 4 * Len(pass_start.cells) - SumGrid(additions)

(* On the grid of side 3 a pass has toppled the centre and boundary cells
   together and lost grains *)
C25_Witness ==
    /\ PassEnded
    /\ GRID_SIZE = 3
    /\ <<1, 1>> \in Range(pass_start.cells)
    /\ Cardinality(BoundaryToppled) >= 2
    /\ PassLoss >= 2

(* C26: inside topple(), whenever the while condition holds the cells found
   for the pass are not none: the `break` on an empty set is never taken. *)
C26_NoSafetyBreak ==
    /\ ~safety_break
    /\ (pc = "topple_while" /\ AnyUnstable(grid)) => WhereUnstable(grid) # << >>
    /\ pc = "topple_for" => pass_start.cells # << >>

(* The third pass of a call has just started, the break not taken *)
C26_Witness ==
    /\ pc = "topple_for"
    /\ passes = 3
    /\ topple_indices = pass_start.cells
    /\ topple_indices # << >>
    /\ ~safety_break

InCycle == pc \in {"topple", "topple_while", "topple_for", "topple_return", "record"}

(* The counters of main() at each control position *)
DriverCounts ==
    /\ pc \in {"while", "events", "draw", "quit", "done"}
          => total_drops = SAND_DROPS_PER_FRAME * frame_count
    /\ (pc = "drop" \/ InCycle)
          => /\ total_drops = SAND_DROPS_PER_FRAME * frame_count + drop_i
             /\ drop_i <= SAND_DROPS_PER_FRAME
             /\ ~paused
    /\ add_sand_calls = total_drops
    /\ add_sand_calls > 0
          => (x = GRID_SIZE \div 2 /\ y = GRID_SIZE \div 2 /\ <<y, x>> \in Cells)
    /\ topple_calls = (IF pc = "topple" THEN add_sand_calls - 1
                                         ELSE add_sand_calls)

(* The order of the calls in a frame *)
DriverOrder ==
    /\ (pc = "drop" /\ drop_i < SAND_DROPS_PER_FRAME)
          => (pc' = "topple" /\ total_drops' = total_drops + 1)
    /\ (pc = "drop" /\ drop_i = SAND_DROPS_PER_FRAME)
          => (pc' = "draw" /\ frame_count' = frame_count + 1)
    /\ (pc = "topple_return")
          => (pc' = "record"
              /\ avalanche_this_step' = total_avalanche_size_for_this_drop)
    /\ (pc = "record")
          => (pc' = "drop"
              /\ avalanche_sizes' =
                    IF avalanche_this_step > 0
                      THEN Append(avalanche_sizes, avalanche_this_step)
                      ELSE avalanche_sizes)
    /\ (pc = "events" /\ pc' = "draw") => paused
    /\ (pc = "events" /\ pc' = "drop") => ~paused

(* C27: in main(), each frame that is not paused makes exactly
   SAND_DROPS_PER_FRAME cycles of add_sand at the centre cell, topple() and
   record_avalanche() of the value topple() returned, in this order; the
   centre is a cell of the grid, so the drop counter grows by
   SAND_DROPS_PER_FRAME per such frame, and by nothing in a paused one. *)
C27_DriverCycle == [](DriverCounts) /\ [][DriverOrder]_vars

(* The second unpaused frame is over: ten drops, ten topple calls *)
C27_Witness ==
    /\ pc = "draw"
    /\ ~paused
    /\ frame_count = 2
    /\ total_drops = 2 * SAND_DROPS_PER_FRAME
    /\ topple_calls = 2 * SAND_DROPS_PER_FRAME
    /\ avalanche_sizes # << >>

(* C28: every index pair add_sand and topple hand to numpy, for the target
   cell, for each toppling cell and for each neighbour written in the
   scratch grid, has row and column in [0, GRID_SIZE); no IndexError is
   raised during a drop or a stabilization. *)
C28_InBoundsAccess ==
    /\ pc # "IndexError"
    /\ (add_sand_calls > 0 /\ InBounds(x, y)) => add_sand_index(x, y) \in Cells
    /\ pc = "topple_for" =>
          \A c \in Range(pass_start.cells) :
              /\ c \in Cells
              /\ \A k \in 1 .. Len(NeighbourWrites(c[1], c[2])) :
                    NeighbourWrites(c[1], c[2])[k] \in Cells

(* On the grid of side 3, after a drop on a corner, a call of topple() has
   toppled two opposite corners and the centre *)
C28_Witness ==
    /\ pc = "record"
    /\ GRID_SIZE = 3
    /\ x \in {0, 2} /\ y \in {0, 2}
    /\ topple_count[<<0, 0>>] >= 1
    /\ topple_count[<<2, 2>>] >= 1
    /\ topple_count[<<1, 1>>] >= 1

(* The cells of g at or above the threshold *)
AtOrAbove(g) == {c \in Cells : Unstable(g[c])}

(* C29: in a run that starts from a stable grid and alternates one drop with
   a full stabilisation, no cell ever holds more than 7 grains, in no state
   of a pass and between no two passes; and right after a drop, before
   topple() runs, at most one cell is at or above 4, it is the cell the
   grain fell on, and it holds exactly 4. *)
C29_BoundedHeight ==
    /\ \A c \in Cells : grid[c] <= 7
    /\ pc = "topple" =>
          /\ Stable(at_drop.grid)
          /\ Cardinality(AtOrAbove(grid)) <= 1
          /\ \A c \in AtOrAbove(grid) : grid[c] = THRESHOLD /\ c = <<y, x>>

(* Between two passes of the stabilisation that follows a drop on a cell
   holding 3, some cell holds 5 grains *)
C29_Witness ==
    /\ pc = "topple_while"
    /\ passes >= 2
    /\ <<y, x>> \in Cells
    /\ at_drop.grid[<<y, x>>] = THRESHOLD - 1
    /\ \E c \in Cells : grid[c] = 5

(* The drop of the current cycle fell on a cell that held exactly 3 *)
DropOnThree == <<y, x>> \in Cells /\ at_drop.grid[<<y, x>>] = THRESHOLD - 1

(* C30: for a drop onto a stable grid, the size topple() returns is greater
   than 0 exactly when the target cell held 3 before the drop; then the
   first pass topples the target cell and no other cell.  A drop outside
   the grid, or on a cell below 3, starts no pass. *)
C30_AvalancheTrigger ==
    /\ pc = "record" => (avalanche_this_step > 0 <=> DropOnThree)
    /\ (pc \in {"topple_while", "topple_for", "topple_return"} /\ passes >= 1)
          => DropOnThree
    /\ (pc = "topple_for" /\ passes = 1) => pass_start.cells = << <<y, x>> >>

(* Two drops on the grid gave no avalanche; the third falls on a cell
   holding 3 and topple() returns a size above 0 *)
C30_Witness ==
    /\ pc = "record"
    /\ add_sand_calls = 3
    /\ Len(avalanche_sizes) = 0
    /\ DropOnThree
    /\ in_bounds_calls = 3
    /\ avalanche_this_step > 0

(* C31: in every state of the driver loop the avalanche series is no longer
   than the drop counter, and from the drop of a cycle to the end of its
   record_avalanche() the series grows by 0 or by 1 entry. *)
C31_SeriesBoundedByDrops ==
    /\ Len(avalanche_sizes) <= total_drops
    /\ Len(avalanche_sizes) - Len(at_drop.series) \in {0, 1}
    /\ total_drops - at_drop.drops \in {0, 1}

(* A cycle has just recorded an avalanche, after cycles that recorded none *)
C31_Witness ==
    /\ pc = "drop"
    /\ Len(avalanche_sizes) = Len(at_drop.series) + 1
    /\ Len(avalanche_sizes) >= 2
    /\ Len(avalanche_sizes) < total_drops

(* The steps of main() that belong to the simulation step of a tick *)
InSimulationStep ==
    pc \in {"drop", "topple", "topple_while", "topple_for", "topple_return", "record"}

(* While paused is set, before and after the step, nothing of the simulation
   moves *)
PausedStep ==
    (paused \/ paused') =>
        UNCHANGED <<grid, total_drops, avalanche_sizes, frame_count,
                    add_sand_calls, topple_calls>>

(* paused changes only in the event loop, and a plot leaves it alone *)
PauseKeyOnly ==
    /\ paused' # paused => (pc = "events" /\ pc' = "events" /\ paused' = ~paused)
    /\ plot_report' # plot_report => paused' = paused

(* C32: a tick that finds paused set goes from the events to draw_grid with
   no drop, no topple() and no record_avalanche(), so the grid, the drop
   counter and the series keep their values while paused is set; paused
   changes only by a key event, which flips it, and a plot request leaves it
   as it is. *)
C32_Pause ==
    /\ [](paused => ~InSimulationStep)
    /\ [][PausedStep]_vars
    /\ [][PauseKeyOnly]_vars

(* A tick that handled one event ends paused at draw_grid, with a plot
   reported and the frame counter still at 1: a plot was requested in a
   paused tick *)
C32_Witness ==
    /\ pc = "draw"
    /\ paused
    /\ running
    /\ events_handled = 1
    /\ frame_count = 1
    /\ total_drops = SAND_DROPS_PER_FRAME
    /\ plot_report # NoReport

-----------------------------------------------------------------------------
(* src/biham_middleton_levine.py: red cars (1) move along the first axis on
   the turns with counter = 0, blue cars (2) along the second axis on the
   turns with counter = 1, on a torus.  The drawing of update() paints the
   cells it reads and is left out; every ratio the script keeps as a float
   is kept here as the pair <<numerator, denominator>>. *)

MaxBmlSide == 3       \* largest width and height of the traffic grid
MaxCars == 3          \* cars of an initial traffic grid
MaxEpochs == 4        \* calls of update() explored

BML_Rows == 0 .. (bml_width - 1)
BML_Cols == 0 .. (bml_height - 1)
BML_Cells == BML_Rows \X BML_Cols          \* a cell is <<r, c>>

(* np.ndindex(cells.shape): the cells in row-major order *)
BML_ndindex == [k \in 1 .. (bml_width * bml_height) |->
                   <<(k - 1) \div bml_height, (k - 1) % bml_height>>]

rightcoord(r) == (r + 1) % bml_width
belowcoord(c) == (c + 1) % bml_height

(* A red car that moves whatever its target holds *)
RedFreeAlways(cells, r, c) == TRUE

(* `cells[rightcoord,c] == 0` *)
RedFree(cells, r, c) == cells[<<rightcoord(r), c>>] = 0

(* `cells[r,belowcoord] == 0` *)
BlueFree(cells, r, c) == cells[<<r, belowcoord(c)>>] = 0

(* next_[cell] = v, counting the writes that land on a cell already set *)
NextSet(acc, cell, v) ==
    [acc EXCEPT !.next_[cell] = v,
                !.overwrites = @ + (IF acc.next_[cell] # 0 THEN 1 ELSE 0)]

(* The body of the loop of update() for the cell (r, c) *)
UpdateCell(acc, cells, ctr, r, c) ==
    LET v == cells[<<r, c>>] IN
    IF ctr = 0
      THEN IF v = 1
             THEN IF RedFree(cells, r, c)
                    THEN NextSet(acc, <<rightcoord(r), c>>, 1)
                    ELSE [NextSet(acc, <<r, c>>, v) EXCEPT !.red_jammed = @ + 1]
             ELSE IF v = 2 THEN NextSet(acc, <<r, c>>, v) ELSE acc
      ELSE IF ctr = 1
             THEN IF v = 2
                    THEN IF BlueFree(cells, r, c)
                           THEN NextSet(acc, <<r, belowcoord(c)>>, 2)
                           ELSE [NextSet(acc, <<r, c>>, v)
                                    EXCEPT !.blue_jammed = @ + 1]
                    ELSE IF v = 1 THEN NextSet(acc, <<r, c>>, v) ELSE acc
             ELSE acc

(* The loop of update() over the first k cells of np.ndindex *)
RECURSIVE UpdateLoop(_, _, _)
UpdateLoop(cells, ctr, k) ==
    IF k = 0
      THEN [next_ |-> [cell \in BML_Cells |-> 0],
            red_jammed |-> 0, blue_jammed |-> 0, overwrites |-> 0]
      ELSE UpdateCell(UpdateLoop(cells, ctr, k - 1), cells, ctr,
                      BML_ndindex[k][1], BML_ndindex[k][2])

(* np.count_nonzero(cells) *)
count_nonzero(cells) == Cardinality({cell \in BML_Cells : cells[cell] # 0})

Last(q) == q[Len(q)]
Abs(n) == IF n < 0 THEN 0 - n ELSE n
FracAdd(a, b) == <<a[1] * b[2] + b[1] * a[2], a[2] * b[2]>>
FracAbsDiff(a, b) == <<Abs(a[1] * b[2] - b[1] * a[2]), a[2] * b[2]>>

(* One iteration of `while True:` with no QUIT event: update() and the turn
   counter.  With no car on the grid the division of line 162 or 169
   raises ZeroDivisionError out of update(), before any append. *)
BML_Tick ==
    /\ bml_pc = "loop"
    /\ Len(delta_jammed) < MaxEpochs
    /\ \E u \in {UpdateLoop(bml_cells, counter, bml_width * bml_height)} :
       LET n == count_nonzero(bml_cells)
           jam == IF counter = 0 THEN u.red_jammed ELSE u.blue_jammed
           all == IF n = 0 THEN <<0, 1>>
                  ELSE FracAdd(<<jam, n>>,
                               IF counter = 0 THEN Last(ratio_blue_jammed)
                                              ELSE Last(ratio_red_jammed))
       IN  IF n = 0
             THEN /\ bml_pc' = "ZeroDivisionError"
                  /\ UNCHANGED <<bml_cells, counter, ratio_red_jammed,
                                 ratio_blue_jammed, ratio_all_jammed,
                                 delta_jammed, overwrites>>
             ELSE /\ bml_cells' = u.next_
                  /\ overwrites' = overwrites + u.overwrites
                  /\ ratio_red_jammed' =
                        Append(ratio_red_jammed,
                               IF counter = 0 THEN <<jam, n>>
                                              ELSE Last(ratio_red_jammed))
                  /\ ratio_blue_jammed' =
                        Append(ratio_blue_jammed,
                               IF counter = 0 THEN Last(ratio_blue_jammed)
                                              ELSE <<jam, n>>)
                  /\ ratio_all_jammed' = Append(ratio_all_jammed, all)
                  /\ delta_jammed' =
                        Append(delta_jammed,
                               FracAbsDiff(all, Last(ratio_all_jammed)))
                  /\ counter' = IF counter + 1 = 2 THEN 0 ELSE counter + 1
                  /\ bml_pc' = "loop"
    /\ UNCHANGED <<bml_width, bml_height, sandpileVars, antVars>>

(* pygame.QUIT: the plots are shown and main() returns *)
BML_Quit ==
    /\ bml_pc = "loop"
    /\ bml_pc' = "returned"
    /\ UNCHANGED <<bml_width, bml_height, bml_cells, counter, ratio_red_jammed,
                   ratio_blue_jammed, ratio_all_jammed, delta_jammed, overwrites,
                   sandpileVars, antVars>>

(* The sandpile script was not started *)
Sandpile_Unloaded ==
    /\ GRID_SIZE = 1
    /\ grid = Zeros
    /\ pc = "unloaded"
    /\ InitSandpile

(* main() up to its loop: init() draws every cell among 0, 1, 2; the grids
   explored hold at most MaxCars cars *)
InitBML ==
    /\ bml_width \in 1 .. MaxBmlSide
    /\ bml_height \in 1 .. MaxBmlSide
    /\ \E S \in SUBSET BML_Cells :
          /\ Cardinality(S) <= MaxCars
          /\ \E colour \in [S -> {1, 2}] :
                bml_cells = [cell \in BML_Cells |->
                                IF cell \in S THEN colour[cell] ELSE 0]
    /\ counter = 0
    /\ ratio_red_jammed = << <<0, 1>> >>
    /\ ratio_blue_jammed = << <<0, 1>> >>
    /\ ratio_all_jammed = << <<0, 1>> >>
    /\ delta_jammed = << >>
    /\ bml_pc = "loop"
    /\ overwrites = 0
    /\ Sandpile_Unloaded
    /\ Ant_Unloaded

NextBML == BML_Tick \/ BML_Quit

SpecBML == InitBML /\ [][NextBML]_vars

(* The cells of the traffic grid holding v *)
BML_Count(cells, v) == Cardinality({cell \in BML_Cells : cells[cell] = v})

(* The torus neighbours a car comes from and goes to *)
RedTarget(cell) == <<(cell[1] + 1) % bml_width, cell[2]>>
RedOrigin(cell) == <<(cell[1] + bml_width - 1) % bml_width, cell[2]>>
BlueTarget(cell) == <<cell[1], (cell[2] + 1) % bml_height>>
BlueOrigin(cell) == <<cell[1], (cell[2] + bml_height - 1) % bml_height>>

(* after is before with every red car whose target was empty moved one cell
   along the first axis, and nothing else changed *)
RedTurn(before, after) ==
    \A cell \in BML_Cells :
        /\ after[cell] \in {0, 1, 2}
        /\ after[cell] = 2 <=> before[cell] = 2
        /\ after[cell] = 1 <=>
              \/ before[cell] = 1 /\ before[RedTarget(cell)] # 0
              \/ before[cell] = 0 /\ before[RedOrigin(cell)] = 1

(* The same for the blue cars along the second axis *)
BlueTurn(before, after) ==
    \A cell \in BML_Cells :
        /\ after[cell] \in {0, 1, 2}
        /\ after[cell] = 1 <=> before[cell] = 1
        /\ after[cell] = 2 <=>
              \/ before[cell] = 2 /\ before[BlueTarget(cell)] # 0
              \/ before[cell] = 0 /\ before[BlueOrigin(cell)] = 2

(* A call of update() returned *)
BML_Updated == Len(delta_jammed') = Len(delta_jammed) + 1

BML_Conserving ==
    BML_Updated =>
        /\ BML_Count(bml_cells', 1) = BML_Count(bml_cells, 1)
        /\ BML_Count(bml_cells', 2) = BML_Count(bml_cells, 2)
        /\ counter = 0 => RedTurn(bml_cells, bml_cells')
        /\ counter = 1 => BlueTurn(bml_cells, bml_cells')
        /\ counter' = 1 - counter

BML_Turns ==
    /\ counter = Len(delta_jammed) % 2
    /\ overwrites = 0
    /\ bml_pc # "ZeroDivisionError" \/ count_nonzero(bml_cells) = 0

(* C33: every call of update() that returns keeps the number of red cells
   and the number of blue cells, and writes no cell of next_ twice; with
   counter = 0 only red cars move, with counter = 1 only blue cars, each by
   one cell with wrap and only into a cell that was empty before the call;
   the turns alternate red, blue, red, ... from the first call on. *)
C33_CarConservation ==
    /\ [](BML_Turns)
    /\ [][BML_Conserving]_vars

(* Four calls on a grid with cars of both colours: in the first red turn a
   red car moved and another was jammed, and a later blue turn jammed a
   blue car *)
C33_Witness ==
    /\ bml_pc = "loop"
    /\ Len(delta_jammed) = 4
    /\ BML_Count(bml_cells, 1) = 2
    /\ BML_Count(bml_cells, 2) = 1
    /\ ratio_red_jammed[2][1] = 1
    /\ \E i \in 2 .. Len(ratio_blue_jammed) : ratio_blue_jammed[i][1] = 1

-----------------------------------------------------------------------------
(* src/Langton_Ant.py: an ant on a torus of cells in states 0, 1, 2.  The
   ant is (x, y, direction) and cells is indexed [x, y].  draw_simulation()
   reads cells and ant and changes neither; it is left out. *)

MaxAntSide == 4       \* largest width and height of the ant's grid
MaxAntSteps == 12     \* calls of update_ant_and_grid explored

Ant_Cells == (0 .. (ant_width - 1)) \X (0 .. (ant_height - 1))

(* Turn Left 90 degrees (lines 70-74) *)
TurnLeft(adir) ==
    IF adir = "u" THEN "l"
    ELSE IF adir = "d" THEN "r"
    ELSE IF adir = "r" THEN "u"
    ELSE "d"

(* Turn Right 90 degrees (lines 79-83) *)
TurnRight(adir) ==
    IF adir = "u" THEN "r"
    ELSE IF adir = "d" THEN "l"
    ELSE IF adir = "r" THEN "d"
    ELSE "u"

(* The rule of the two-state ant: a cell in state 1 goes back to 0 *)
FlippedToZero(current_cell_state) == IF current_cell_state = 1 THEN 0 ELSE 1

(* The value written under the ant (lines 76 and 85) *)
Flipped(current_cell_state) == IF current_cell_state = 1 THEN 2 ELSE 1

new_dir_of(current_cell_state, adir) ==
    IF current_cell_state = 1 THEN TurnLeft(adir) ELSE TurnRight(adir)

(* Python's % on a divisor above 0: the result is in 0 .. n - 1 *)
PyMod(a, n) == ((a % n) + n) % n

(* Move ant forward one step in the new direction (lines 88-92) *)
Forward(ax, ay, new_dir) ==
    IF new_dir = "u" THEN <<ax, PyMod(ay - 1, ant_height)>>
    ELSE IF new_dir = "d" THEN <<ax, PyMod(ay + 1, ant_height)>>
    ELSE IF new_dir = "l" THEN <<PyMod(ax - 1, ant_width), ay>>
    ELSE <<PyMod(ax + 1, ant_width), ay>>

(* update_ant_and_grid(cells, ant, width, height): <<next_cells, new_ant>> *)
update_ant_and_grid(cells, a) ==
    LET ax == a[1]
        ay == a[2]
        current_cell_state == cells[<<ax, ay>>]
        new_dir == new_dir_of(current_cell_state, a[3])
        to == Forward(ax, ay, new_dir)
    IN  << [cells EXCEPT ![<<ax, ay>>] = Flipped(current_cell_state)],
           <<to[1], to[2], new_dir>> >>

(* `while running:` *)
Ant_While ==
    /\ ant_pc = "while"
    /\ ant_pc' = IF ant_running THEN "events" ELSE "returned"
    /\ UNCHANGED <<ant_width, ant_height, ant_cells, ant, ant_running, visited,
                   ant_steps, sandpileVars, bmlVars>>

(* The event batch holds a pygame.QUIT *)
Ant_EventQuit ==
    /\ ant_pc = "events"
    /\ ant_running' = FALSE
    /\ ant_pc' = "update"
    /\ UNCHANGED <<ant_width, ant_height, ant_cells, ant, visited, ant_steps,
                   sandpileVars, bmlVars>>

(* The event batch holds no pygame.QUIT *)
Ant_EventsDone ==
    /\ ant_pc = "events"
    /\ ant_pc' = "update"
    /\ UNCHANGED <<ant_width, ant_height, ant_cells, ant, ant_running, visited,
                   ant_steps, sandpileVars, bmlVars>>

(* cells, ant = update_ant_and_grid(cells, ant, width, height), then the
   drawing *)
Ant_Update ==
    /\ ant_pc = "update"
    /\ ant_steps < MaxAntSteps
    /\ LET u == update_ant_and_grid(ant_cells, ant) IN
         /\ ant_cells' = u[1]
         /\ ant' = u[2]
    /\ visited' = visited \cup {<<ant[1], ant[2]>>}
    /\ ant_steps' = ant_steps + 1
    /\ ant_pc' = "while"
    /\ UNCHANGED <<ant_width, ant_height, ant_running, sandpileVars, bmlVars>>

(* main() up to its loop: init() gives the grid of zeros and the ant at the
   centre, facing right *)
InitAnt ==
    /\ ant_width \in 1 .. MaxAntSide
    /\ ant_height \in 1 .. MaxAntSide
    /\ ant_cells = [cell \in Ant_Cells |-> 0]
    /\ ant = <<ant_width \div 2, ant_height \div 2, "r">>
    /\ ant_running = TRUE
    /\ ant_pc = "while"
    /\ visited = {}
    /\ ant_steps = 0
    /\ Sandpile_Unloaded
    /\ BML_Unloaded

NextAnt == Ant_While \/ Ant_EventQuit \/ Ant_EventsDone \/ Ant_Update

SpecAnt == InitAnt /\ [][NextAnt]_vars

(* The directions in clockwise order on the screen, y growing downward *)
Clockwise == <<"u", "r", "d", "l">>
ClockPos(d) == CHOOSE i \in 1 .. 4 : Clockwise[i] = d
QuarterTurn(d, k) == Clockwise[((ClockPos(d) - 1 + k) % 4) + 1]

(* The cell one step from cell in direction d, on the torus *)
Ahead(cell, d) ==
    LET dx == IF d = "r" THEN 1 ELSE IF d = "l" THEN ant_width - 1 ELSE 0
        dy == IF d = "d" THEN 1 ELSE IF d = "u" THEN ant_height - 1 ELSE 0
    IN  <<(cell[1] + dx) % ant_width, (cell[2] + dy) % ant_height>>

Ant_Inside ==
    ant_pc # "unloaded" =>
        /\ <<ant[1], ant[2]>> \in Ant_Cells
        /\ ant[3] \in {"u", "d", "l", "r"}
        /\ \A cell \in Ant_Cells :
              /\ ant_cells[cell] \in {0, 1, 2}
              /\ ant_cells[cell] = 0 <=> cell \notin visited

Ant_StepRule ==
    ant_steps' = ant_steps + 1 =>
        LET here == <<ant[1], ant[2]>> IN
        /\ \A cell \in Ant_Cells :
              ant_cells'[cell] # ant_cells[cell] <=> cell = here
        /\ ant_cells[here] = 1 =>
              ant_cells'[here] = 2 /\ ant'[3] = QuarterTurn(ant[3], 3)
        /\ ant_cells[here] \in {0, 2} =>
              ant_cells'[here] = 1 /\ ant'[3] = QuarterTurn(ant[3], 1)
        /\ <<ant'[1], ant'[2]>> = Ahead(here, ant'[3])

(* C34: after any number of update_ant_and_grid steps the ant is on a cell
   of the grid; each step changes exactly the cell the ant stood on: from 1
   to 2 with a left turn, from 0 or 2 to 1 with a right turn, then the ant
   moves one cell in its new direction with wrap; a cell is in state 0
   exactly when the ant never stood on it. *)
C34_AntStep ==
    /\ [](Ant_Inside)
    /\ [][Ant_StepRule]_vars

(* Twelve steps on the 3 x 3 grid: the ant has stood on five cells or more,
   some now in state 1 and some in state 2 *)
C34_Witness ==
    /\ ant_pc = "while"
    /\ ant_width = 3 /\ ant_height = 3
    /\ ant_steps = 12
    /\ \E cell \in Ant_Cells : ant_cells[cell] = 2
    /\ \E cell \in Ant_Cells : ant_cells[cell] = 1
    /\ Cardinality(visited) >= 5

====
